---- MODULE Spec2Model ----
(***************************************************************************)
(* Model of the download orchestration of web_downloader:                  *)
(*   utils.py      retry_on_db_lock, safe_save, download_video_thread,     *)
(*                 progress_callback, start_download                       *)
(*   helpers/downloader.py  validate_url, get_video_info, download_video,  *)
(*                 download_audio, _execute_download                       *)
(*   forms.py      DownloadForm                                            *)
(*   views.py      index, get_progress, download_file, delete_download     *)
(*   models.py     VideoDownload                                           *)
(* One row of the table and one worker thread per job id.  Every attempt   *)
(* of a store operation (one atomic transaction) is one step; the store    *)
(* answers each attempt with success, "database is locked", another        *)
(* OperationalError or another exception.                                  *)
(* Spec and FairSpec run one job against every answer of the store,        *)
(* IntakeSpec every form of every session against a store that answers at  *)
(* once, ParserSpec the output parser alone on every sequence of lines.    *)
(***************************************************************************)
EXTENDS Integers, Sequences, FiniteSets, TLC

\* ------------------------------------------------------------ bounds
MaxLines == 2
MaxFiles == 1

\* ------------------------------------------------- program constants
max_retries == 5
initial_delay == 100
ProgressMin == 0
ProgressMax == 100

\* The job ids.  Rows and workers of different ids share nothing but the
\* store (whose contention is the answer "locked") and the output directory
\* (to which any external process may write, see ToolWrites).
Jobs == {1}

STATUS_CHOICES == {"pending", "fetching", "downloading", "completed", "failed"}

\* A path is <<stem, extension>>; the empty sequence is the empty string
\* (and None, which the code only ever tests for truth).
NoPath == <<>>
Paths == {<<"foo bar", "mp4">>, <<"clip", "mp3">>}

\* The files that may lie in the output directory: the two announced paths
\* and a file of the first title in another container.
DiskPaths == Paths \cup {<<"foo bar", "webm">>}

\* No job: the writer of a file that no job's process has written.
NoJob == 0

\* A directory none of whose files was written by a job's process.
Unwritten == [p \in DiskPaths |-> NoJob]

\* Faulty variant of Stem: the base name with its extension (Path.name).
StemKeepsSuffix(p) == IF p = NoPath THEN "" ELSE p[1] \o "." \o p[2]

\* Path(dest).stem
Stem(p) == IF p = NoPath THEN "" ELSE p[1]

\* ------------------------------------------------------------- rows
NoRow ==
  [exists |-> FALSE, status |-> "", progress |-> 0, title |-> "",
   thumbnail |-> "", uploader |-> "", duration |-> 0,
   file_path |-> NoPath, error_message |-> ""]

\* The defaults of the model fields: what form.save() stores for a new row.
VideoDownload ==
  [exists |-> TRUE, status |-> "pending", progress |-> 0, title |-> "",
   thumbnail |-> "", uploader |-> "", duration |-> 0,
   file_path |-> NoPath, error_message |-> ""]

VARIABLES
  rec,            \* rec[j]: the stored row of job j (NoRow: no such row)
  pc,             \* pc[j]: where job j's worker thread is
  mem,            \* mem[j]: the worker's in-memory instance `download`
  dl,             \* dl[j]: the instance `dl` of the running progress callback
  call,           \* call[j]: the current / last retry_on_db_lock call
  exc,            \* exc[j]: str(e) of the exception the worker's handler caught
  current_file,   \* parser state of _execute_download
  current_title,  \* parser state of _execute_download
  cbPercent,      \* percent argument of the running progress callback
  nlines,         \* lines of the external process read so far
  files,          \* the output directory, oldest file first
  handlerFailed,  \* the load or the write in the worker's handler failed
  intake,         \* intake[j]: the fields of row j that only the form sets
  threads,        \* threads[j]: worker threads started for job id j
  infoRun,        \* infoRun[j]: the metadata invocation of job j gave
                  \* nothing, metadata without title text, or metadata
  lineLog,        \* lineLog[j]: the lines a recorded parser run has read
  cbLog,          \* cbLog[j]: the calls a recorded parser run has made
  writer          \* writer[p]: the job whose process last wrote the file p
                  \* of the output directory (NoJob: no job's process)

vars ==
  <<rec, pc, mem, dl, call, exc, current_file, current_title, cbPercent,
    nlines, files, handlerFailed, intake, threads, infoRun, lineLog, cbLog, writer>>

\* ---------------------------------------------------- retry_on_db_lock
\* What the store answers to one attempt.
DbOutcomes == {"ok", "locked", "operr", "error"}

\* str(e) for the exception class
ErrText(o) ==
  CASE o = "locked" -> "database is locked"
    [] o = "operr" -> "disk I/O error"
    [] OTHER -> "internal error"

\* Faulty variant of Delay: `*` written for `**`.
DelayTimesAttempt(attempt) == initial_delay * 2 * attempt

\* delay = initial_delay * (2 ** attempt), in milliseconds
Delay(attempt) == initial_delay * (2 ^ attempt)

\* Faulty variant of retry_on_db_lock: the test `attempt < max_retries`, so
\* that the last failed attempt sleeps too before the call raises.
retry_sleeps_after_last(attempt, out) ==
  IF out = "ok" THEN [sleep |-> FALSE, next |-> "return"]
  ELSE IF out \in {"locked", "operr"}
       THEN IF out = "locked" /\ attempt < max_retries
            THEN [sleep |-> TRUE,
                  next |-> IF attempt + 1 < max_retries THEN "again" ELSE "raise"]
            ELSE [sleep |-> FALSE, next |-> "raise"]
       ELSE [sleep |-> FALSE, next |-> "raise"]

\* Faulty variant of retry_on_db_lock: every OperationalError is retried,
\* the message is not looked at.
retry_any_operational_error(attempt, out) ==
  IF out = "ok" THEN [sleep |-> FALSE, next |-> "return"]
  ELSE IF out \in {"locked", "operr"}
       THEN IF attempt < max_retries - 1
            THEN [sleep |-> TRUE,
                  next |-> IF attempt + 1 < max_retries THEN "again" ELSE "raise"]
            ELSE [sleep |-> FALSE, next |-> "raise"]
       ELSE [sleep |-> FALSE, next |-> "raise"]

\* One pass of the loop body (utils.py:24-33) for attempt number `attempt`
\* (0-based) when func() ends with `out`: whether the pass sleeps, and how it
\* ends: "return", "again" (the next pass of the loop) or "raise" (line 33,
\* or line 34 when the loop runs out after a sleep).
retry_on_db_lock(attempt, out) ==
  IF out = "ok" THEN [sleep |-> FALSE, next |-> "return"]
  ELSE IF out \in {"locked", "operr"}
       THEN IF out = "locked" /\ attempt < max_retries - 1
            THEN [sleep |-> TRUE,
                  next |-> IF attempt + 1 < max_retries THEN "again" ELSE "raise"]
            ELSE [sleep |-> FALSE, next |-> "raise"]
       ELSE [sleep |-> FALSE, next |-> "raise"]

\* The record of a retry_on_db_lock call: how each attempt ended, the delays
\* slept, and whether the call is running, returned ("ok") or raised.
NoCall == [outs |-> <<>>, slept |-> <<>>, res |-> "none"]

\* 0-based number of the attempt job j's worker makes next
Attempt(j) == IF call[j].res = "running" THEN Len(call[j].outs) ELSE 0

\* The call record after an attempt that ended with `out`.
AfterAttempt(j, out) ==
  LET running == call[j].res = "running"
      outs == IF running THEN call[j].outs ELSE <<>>
      slept == IF running THEN call[j].slept ELSE <<>>
      r == retry_on_db_lock(Attempt(j), out)
  IN [outs |-> Append(outs, out),
      slept |-> IF r.sleep THEN Append(slept, Delay(Attempt(j))) ELSE slept,
      res |-> IF r.next = "again" THEN "running"
              ELSE IF r.next = "return" THEN "ok" ELSE "raised"]

\* VideoDownload.objects.get(id=download_id): a reached store with no such
\* row raises DoesNotExist.
GetOutcome(j, o) == IF o = "ok" /\ ~rec[j].exists THEN "missing" ELSE o

\* ---------------------------------------------------------------- intake
\* The session ids of the clients (get_or_create_session_id).
Sessions == {"s1", "s2"}

FORMAT_CHOICES == {"mp4", "mp3"}

QUALITY_CHOICES == {"best", "1080p", "720p", "480p", "worst"}

\* A url is [host, path, id, long]: what YOUTUBE_URL_PATTERN looks at, and
\* whether the text has more than 500 characters.  The empty url has three
\* empty parts.
Urls ==
  { [host |-> "youtube.com", path |-> "watch?v=", id |-> "dQw4w9WgXcQ",
     long |-> FALSE],
    [host |-> "youtu.be", path |-> "", id |-> "dQw4w9WgXcQ", long |-> FALSE],
    [host |-> "youtube.com", path |-> "watch?v=", id |-> "dQw4w9WgXcQ&t=",
     long |-> TRUE],
    [host |-> "youtube.com", path |-> "watch?v=", id |-> "", long |-> FALSE],
    [host |-> "vimeo.com", path |-> "", id |-> "123456", long |-> FALSE],
    [host |-> "", path |-> "", id |-> "", long |-> FALSE] }

\* downloader.py:41-44, 70-82: (is_valid, error_message)
validate_url(url) ==
  IF url.host = "" /\ url.path = "" /\ url.id = ""
  THEN <<FALSE, "URL cannot be empty">>
  ELSE IF ~ /\ \/ /\ url.host = "youtube.com"
                  /\ url.path \in {"watch?v=", "embed/", "v/", "shorts/",
                                   "playlist?list="}
               \/ url.host = "youtu.be" /\ url.path = ""
            /\ url.id # ""
  THEN <<FALSE, "Invalid YouTube URL format">>
  ELSE IF url.long
  THEN <<FALSE, "URL is too long">>
  ELSE <<TRUE, "">>

\* The submitted forms; "2160p" is no choice of the quality field.
Forms ==
  [url : Urls, format_type : FORMAT_CHOICES,
   quality : QUALITY_CHOICES \cup {"2160p"}]

\* The form of the model defaults (models.py:38-39) with a valid url.
DefaultForm ==
  [url |-> [host |-> "youtube.com", path |-> "watch?v=", id |-> "dQw4w9WgXcQ",
             long |-> FALSE],
   format_type |-> "mp4", quality |-> "720p"]

\* forms.py:33-41 and the choice fields: form.is_valid()
is_valid(form) ==
  /\ validate_url(form.url)[1]
  /\ form.format_type \in FORMAT_CHOICES
  /\ form.quality \in QUALITY_CHOICES

\* Faulty variant of clean: the quality of an audio form is left as sent.
clean_keeps_quality(form) == form

\* forms.py:43-54: audio is always stored with quality best
clean(form) ==
  IF form.format_type = "mp3" THEN [form EXCEPT !.quality = "best"] ELSE form

\* No submission has been stored under the id.
NoIntake ==
  [session_id |-> "",
   url |-> [host |-> "", path |-> "", id |-> "", long |-> FALSE],
   format_type |-> "", quality |-> "", asked |-> ""]

\* views.py:30-32: the fields the form and the view set on the new row
\* (`asked` remembers the quality that was sent).
NewIntake(s, form) ==
  [session_id |-> s, url |-> clean(form).url,
   format_type |-> clean(form).format_type, quality |-> clean(form).quality,
   asked |-> form.quality]

\* downloader.py:30-38
VIDEO_QUALITY_FORMATS ==
  [q \in QUALITY_CHOICES |->
     CASE q = "best" -> "bestvideo[ext=mp4]+bestaudio[ext=m4a]/best[ext=mp4]/best"
       [] q = "1080p" -> "bestvideo[height<=1080][ext=mp4]+bestaudio[ext=m4a]/best[height<=1080][ext=mp4]/best[height<=1080]"
       [] q = "720p" -> "bestvideo[height<=720][ext=mp4]+bestaudio[ext=m4a]/best[height<=720][ext=mp4]/best[height<=720]"
       [] q = "480p" -> "bestvideo[height<=480][ext=mp4]+bestaudio[ext=m4a]/best[height<=480][ext=mp4]/best[height<=480]"
       [] OTHER -> "worstvideo[ext=mp4]+worstaudio[ext=m4a]/worst[ext=mp4]/worst"]

AUDIO_FORMAT == "bestaudio[ext=m4a]/bestaudio/best"

\* downloader.py:179-184, 241-258: the command of a video download
download_video(url, quality) ==
  [f |-> IF quality \in QUALITY_CHOICES THEN VIDEO_QUALITY_FORMATS[quality]
         ELSE VIDEO_QUALITY_FORMATS["720p"],
   x |-> FALSE, audio_format |-> "", audio_quality |-> "",
   merge_output_format |-> "mp4", no_playlist |-> TRUE, url |-> url]

\* downloader.py:201-220: the command of an audio download
download_audio(url) ==
  [f |-> AUDIO_FORMAT,
   x |-> TRUE, audio_format |-> "mp3", audio_quality |-> "0",
   merge_output_format |-> "", no_playlist |-> TRUE, url |-> url]

\* utils.py:96-106: the command the worker runs for a row
FetchCommand(row) ==
  IF row.format_type = "mp3" THEN download_audio(row.url)
  ELSE download_video(row.url, row.quality)

Init ==
  /\ rec = [j \in Jobs |-> NoRow]
  /\ pc = [j \in Jobs |-> "new"]
  /\ mem = [j \in Jobs |-> NoRow]
  /\ dl = [j \in Jobs |-> NoRow]
  /\ call = [j \in Jobs |-> NoCall]
  /\ exc = [j \in Jobs |-> ""]
  /\ current_file = [j \in Jobs |-> NoPath]
  /\ current_title = [j \in Jobs |-> ""]
  /\ cbPercent = [j \in Jobs |-> 0]
  /\ nlines = [j \in Jobs |-> 0]
  /\ files = <<>>
  /\ handlerFailed = [j \in Jobs |-> FALSE]
  /\ intake = [j \in Jobs |-> NoIntake]
  /\ threads = [j \in Jobs |-> 0]
  /\ infoRun = [j \in Jobs |-> "unset"]
  /\ lineLog = [j \in Jobs |-> <<>>]
  /\ cbLog = [j \in Jobs |-> <<>>]
  /\ writer = Unwritten

\* Faulty variant of index: the form is saved without is_valid().
index_unchecked(j, s, form) ==
  /\ pc[j] = "new"
  /\ rec' = [rec EXCEPT ![j] = VideoDownload]
  /\ intake' = [intake EXCEPT ![j] = NewIntake(s, form)]
  /\ threads' = [threads EXCEPT ![j] = @ + 1]
  /\ pc' = [pc EXCEPT ![j] = "load"]
  /\ UNCHANGED <<mem, dl, call, exc, current_file, current_title, cbPercent,
                 nlines, files, handlerFailed,
                 infoRun, lineLog, cbLog, writer>>

\* views.index (POST) by session s, and start_download: a valid form is
\* stored as a new row (under a fresh id) with the model defaults and one
\* worker thread is started for its id; an invalid form is shown again with
\* its errors.
index(j, s, form) ==
  /\ pc[j] = "new"
  /\ IF is_valid(form)
     THEN /\ rec' = [rec EXCEPT ![j] = VideoDownload]
          /\ intake' = [intake EXCEPT ![j] = NewIntake(s, form)]
          /\ threads' = [threads EXCEPT ![j] = @ + 1]
          /\ pc' = [pc EXCEPT ![j] = "load"]
     ELSE UNCHANGED <<rec, intake, threads, pc>>
  /\ UNCHANGED <<mem, dl, call, exc, current_file, current_title, cbPercent,
                 nlines, files, handlerFailed,
                 infoRun, lineLog, cbLog, writer>>

\* instance.save() of an instance with a primary key: UPDATE, and INSERT when
\* no row was updated.
Stored(obj) == [obj EXCEPT !.exists = TRUE]

\* ------------------------------------------------ download_video_thread
\* utils.py:61  download = retry_on_db_lock(get_download); line 62 sets the
\* status of the loaded instance.  DoesNotExist ends the worker (line 126),
\* any other exception goes to the handler (line 128).
Load(j) ==
  /\ pc[j] = "load"
  /\ \E o \in DbOutcomes :
       LET out == GetOutcome(j, o)
           r == retry_on_db_lock(Attempt(j), out).next
       IN /\ call' = [call EXCEPT ![j] = AfterAttempt(j, out)]
          /\ IF r = "return"
             THEN /\ mem' = [mem EXCEPT ![j] = [rec[j] EXCEPT !.status = "fetching"]]
                  /\ pc' = [pc EXCEPT ![j] = "save_fetching"]
                  /\ UNCHANGED exc
             ELSE IF r = "again"
             THEN UNCHANGED <<mem, pc, exc>>
             ELSE IF out = "missing"
             THEN /\ pc' = [pc EXCEPT ![j] = "done"]
                  /\ UNCHANGED <<mem, exc>>
             ELSE /\ pc' = [pc EXCEPT ![j] = "h_get"]
                  /\ exc' = [exc EXCEPT ![j] = ErrText(out)]
                  /\ UNCHANGED mem
  /\ UNCHANGED <<rec, dl, current_file, current_title, cbPercent, nlines,
                 files, handlerFailed,
                 intake, threads, infoRun, lineLog, cbLog, writer>>

\* Faulty variant of safe_save: the save only updates (force_update), so
\* that a save of an instance whose row is gone raises instead of inserting.
safe_save_update_only(j, at, nextPc, nextMem) ==
  /\ pc[j] = at
  /\ \E o \in DbOutcomes :
       LET out == IF o = "ok" /\ ~ rec[j].exists THEN "error" ELSE o
           r == retry_on_db_lock(Attempt(j), out).next
       IN /\ call' = [call EXCEPT ![j] = AfterAttempt(j, out)]
          /\ IF r = "return"
             THEN /\ rec' = [rec EXCEPT ![j] = Stored(mem[j])]
                  /\ pc' = [pc EXCEPT ![j] = nextPc]
                  /\ mem' = [mem EXCEPT ![j] = nextMem]
                  /\ UNCHANGED exc
             ELSE IF r = "again"
             THEN UNCHANGED <<rec, pc, mem, exc>>
             ELSE /\ pc' = [pc EXCEPT ![j] = "h_get"]
                  /\ exc' = [exc EXCEPT ![j] = ErrText(out)]
                  /\ UNCHANGED <<rec, mem>>
  /\ UNCHANGED <<dl, current_file, current_title, cbPercent, nlines, files,
                 handlerFailed,
                 intake, threads, infoRun, lineLog, cbLog, writer>>

\* safe_save(download) at one of the worker's write sites: one attempt of
\* the atomic save.  On success the whole in-memory instance is stored and
\* the worker goes on at nextPc with nextMem; when retry_on_db_lock raises,
\* the worker's handler (line 128) takes over.
safe_save(j, at, nextPc, nextMem) ==
  /\ pc[j] = at
  /\ \E o \in DbOutcomes :
       LET r == retry_on_db_lock(Attempt(j), o).next
       IN /\ call' = [call EXCEPT ![j] = AfterAttempt(j, o)]
          /\ IF r = "return"
             THEN /\ rec' = [rec EXCEPT ![j] = Stored(mem[j])]
                  /\ pc' = [pc EXCEPT ![j] = nextPc]
                  /\ mem' = [mem EXCEPT ![j] = nextMem]
                  /\ UNCHANGED exc
             ELSE IF r = "again"
             THEN UNCHANGED <<rec, pc, mem, exc>>
             ELSE /\ pc' = [pc EXCEPT ![j] = "h_get"]
                  /\ exc' = [exc EXCEPT ![j] = ErrText(o)]
                  /\ UNCHANGED <<rec, mem>>
  /\ UNCHANGED <<dl, current_file, current_title, cbPercent, nlines, files,
                 handlerFailed,
                 intake, threads, infoRun, lineLog, cbLog, writer>>

\* utils.py:63
SaveFetching(j) == safe_save(j, "save_fetching", "info", mem[j])

\* A text key the JSON document does not have (or has with the value null).
\* A duration the document does not have reads 0 (downloader.py:136, and
\* `or 0` in utils.py:73), so 0 stands for it.
Missing == "<missing>"

\* The first line of the output of a metadata invocation that ended with
\* exit code 0, parsed: one document with every key and one with no title
\* text and nothing else.
Docs ==
  { [title |-> "Meta Title", thumbnail |-> "thumb.jpg", duration |-> 212,
     uploader |-> "Some Channel"],
    [title |-> "", thumbnail |-> Missing, duration |-> 0,
     uploader |-> Missing] }

NoDoc ==
  [title |-> Missing, thumbnail |-> Missing, duration |-> 0,
   uploader |-> Missing]

\* How subprocess.run of the metadata invocation can end: the 60 s timeout,
\* a non-zero exit code, exit code 0 with nothing on stdout, exit code 0
\* with a first line that is not JSON, exit code 0 with a JSON document.
InfoRuns ==
  { [kind |-> k, doc |-> NoDoc] : k \in {"timeout", "nonzero", "empty", "badjson"} }
  \cup { [kind |-> "json", doc |-> d] : d \in Docs }

\* get_video_info returned None.
None ==
  [some |-> FALSE, title |-> "", thumbnail |-> Missing, duration |-> 0,
   uploader |-> Missing]

\* downloader.py:124-160: the dictionary of a run that gave a document
\* (data.get with its defaults), None for every other run.
get_video_info(run) ==
  IF run.kind = "json"
  THEN [some |-> TRUE,
        title |-> IF run.doc.title = Missing THEN "Unknown" ELSE run.doc.title,
        thumbnail |-> run.doc.thumbnail,
        duration |-> run.doc.duration,
        uploader |-> IF run.doc.uploader = Missing THEN "Unknown"
                     ELSE run.doc.uploader]
  ELSE None

\* utils.py:71-74: the fields the worker takes from the dictionary
WithInfo(m, video_info) ==
  [m EXCEPT !.title = video_info.title,
            !.thumbnail = IF video_info.thumbnail = Missing THEN ""
                          ELSE video_info.thumbnail,
            !.duration = video_info.duration,
            !.uploader = IF video_info.uploader = Missing THEN ""
                         ELSE video_info.uploader]

\* Faulty variant of FetchInfo: a run without metadata is taken for an error
\* of the job.
FetchInfoFailsJob(j) ==
  /\ pc[j] = "info"
  /\ \E run \in InfoRuns :
       LET video_info == get_video_info(run) IN
       IF video_info.some
       THEN /\ mem' = [mem EXCEPT ![j] = WithInfo(@, video_info)]
            /\ pc' = [pc EXCEPT ![j] = "save_info"]
            /\ infoRun' = [infoRun EXCEPT ![j] =
                             IF video_info.title = "" THEN "untitled"
                             ELSE "info"]
       ELSE /\ mem' = [mem EXCEPT ![j].status = "failed",
                                  ![j].error_message = "Download failed"]
            /\ pc' = [pc EXCEPT ![j] = "save_failed"]
            /\ infoRun' = [infoRun EXCEPT ![j] = "none"]
  /\ UNCHANGED <<rec, dl, call, exc, current_file, current_title, cbPercent,
                 nlines, files, handlerFailed,
                 intake, threads, lineLog, cbLog, writer>>

\* utils.py:69-77: with metadata the four fields are set and saved (line
\* 75); without, the worker goes straight on to line 77.
FetchInfo(j) ==
  /\ pc[j] = "info"
  /\ \E run \in InfoRuns :
       LET video_info == get_video_info(run) IN
       IF video_info.some
       THEN /\ mem' = [mem EXCEPT ![j] = WithInfo(@, video_info)]
            /\ pc' = [pc EXCEPT ![j] = "save_info"]
            /\ infoRun' = [infoRun EXCEPT ![j] =
                             IF video_info.title = "" THEN "untitled"
                             ELSE "info"]
       ELSE /\ mem' = [mem EXCEPT ![j].status = "downloading"]
            /\ pc' = [pc EXCEPT ![j] = "save_downloading"]
            /\ infoRun' = [infoRun EXCEPT ![j] = "none"]
  /\ UNCHANGED <<rec, dl, call, exc, current_file, current_title, cbPercent,
                 nlines, files, handlerFailed,
                 intake, threads, lineLog, cbLog, writer>>

\* Faulty variant of SaveInfo: line 77 is skipped after the metadata write.
SaveInfoStaysFetching(j) == safe_save(j, "save_info", "save_downloading", mem[j])

\* utils.py:75, then line 77
SaveInfo(j) ==
  safe_save(j, "save_info", "save_downloading",
            [mem[j] EXCEPT !.status = "downloading"])

\* utils.py:78
SaveDownloading(j) == safe_save(j, "save_downloading", "spawn", mem[j])

\* ----------------------------------------------------- _execute_download
\* The text before '%' on a progress line (line.split('%')[0].split()[-1]):
\* a decimal number given in tenths, "nan", "inf", or a word float() rejects.
PercentTenths == {425, 1000, 1503}

Tokens ==
  [kind : {"num"}, tenths : PercentTenths]
    \cup [kind : {"bad", "nan", "inf"}, tenths : {0}]

\* Faulty variant of Trunc: round(x), half up.
TruncRounds(tenths) == (tenths + 5) \div 10

\* int(x) of a float: truncation towards zero
Trunc(tenths) == IF tenths >= 0 THEN tenths \div 10 ELSE -((-tenths) \div 10)

\* downloader.py:298-304: float(percent_str) raises ValueError on a word;
\* int(percent) raises ValueError on nan (both ignored by the except clause)
\* and OverflowError on inf, which the clause does not catch.
ParsePercent(tok) ==
  CASE tok.kind = "num" -> [r |-> "call", n |-> Trunc(tok.tenths)]
    [] tok.kind = "inf" -> [r |-> "overflow", n |-> 0]
    [] OTHER -> [r |-> "ignored", n |-> 0]

\* The lines the external process may print, by the branch of
\* downloader.py:291-315 that takes them.  A merger line without quotes
\* carries no path.
Lines ==
  [shape : {"dest", "extract"}, path : Paths, tok : {[kind |-> "bad", tenths |-> 0]}]
    \cup [shape : {"merger"}, path : Paths \cup {NoPath},
          tok : {[kind |-> "bad", tenths |-> 0]}]
    \cup [shape : {"percent"}, path : {NoPath}, tok : Tokens]
    \cup [shape : {"other"}, path : {NoPath}, tok : {[kind |-> "bad", tenths |-> 0]}]

InDir(p) == \E i \in 1..Len(files) : files[i] = p

\* max(possible_files, key=mtime) over output_dir.glob(f"{title}.*")
LatestMatching(title) ==
  LET idx == {i \in 1..Len(files) : Stem(files[i]) = title}
  IN IF idx = {} THEN NoPath
     ELSE files[CHOOSE i \in idx : \A k \in idx : k <= i]

\* Faulty variants of Resolve: the newest file of the directory is taken
\* before a file of the working title is looked for; and an exit with code
\* 0 that finds no file gives the message of a failed exit.
ResolveNewestFirst(rc, cf, ct) ==
  IF rc = 0
  THEN IF cf # NoPath /\ InDir(cf)
       THEN [success |-> TRUE, message |-> "Download completed successfully",
             file_path |-> cf]
       ELSE IF files # <<>>
       THEN [success |-> TRUE, message |-> "Download completed successfully",
             file_path |-> files[Len(files)]]
       ELSE [success |-> FALSE,
             message |-> "Download completed but file not found",
             file_path |-> NoPath]
  ELSE [success |-> FALSE, message |-> "Download failed", file_path |-> NoPath]

ResolveOneMessage(rc, cf, ct) ==
  IF rc = 0
  THEN IF cf # NoPath /\ InDir(cf)
       THEN [success |-> TRUE, message |-> "Download completed successfully",
             file_path |-> cf]
       ELSE IF ct # "" /\ LatestMatching(ct) # NoPath
       THEN [success |-> TRUE, message |-> "Download completed successfully",
             file_path |-> LatestMatching(ct)]
       ELSE IF files # <<>>
       THEN [success |-> TRUE, message |-> "Download completed successfully",
             file_path |-> files[Len(files)]]
       ELSE [success |-> FALSE, message |-> "Download failed",
             file_path |-> NoPath]
  ELSE [success |-> FALSE, message |-> "Download failed", file_path |-> NoPath]

\* downloader.py:319-339: (success, message, file_path) once the process
\* has exited with return code rc.
Resolve(rc, cf, ct) ==
  IF rc = 0
  THEN IF cf # NoPath /\ InDir(cf)
       THEN [success |-> TRUE, message |-> "Download completed successfully",
             file_path |-> cf]
       ELSE IF ct # "" /\ LatestMatching(ct) # NoPath
       THEN [success |-> TRUE, message |-> "Download completed successfully",
             file_path |-> LatestMatching(ct)]
       ELSE IF files # <<>>
       THEN [success |-> TRUE, message |-> "Download completed successfully",
             file_path |-> files[Len(files)]]
       ELSE [success |-> FALSE,
             message |-> "Download completed but file not found",
             file_path |-> NoPath]
  ELSE [success |-> FALSE, message |-> "Download failed", file_path |-> NoPath]

\* downloader.py:343-345: any exception inside _execute_download
DownloadError(text) ==
  [success |-> FALSE, message |-> "Download error: " \o text, file_path |-> NoPath]

\* Faulty variants of Finalize: the success branch without line 109, with
\* the message stored on success too, and without line 111.
FinalizeNoPath(m, result) ==
  IF result.success /\ result.file_path # NoPath
  THEN [m EXCEPT !.status = "completed", !.progress = ProgressMax]
  ELSE [m EXCEPT !.status = "failed",
                 !.error_message = IF result.message # "" THEN result.message
                                   ELSE "Download failed"]

FinalizeMessageAlways(m, result) ==
  IF result.success /\ result.file_path # NoPath
  THEN [m EXCEPT !.file_path = result.file_path,
                 !.status = "completed",
                 !.progress = ProgressMax,
                 !.error_message = result.message]
  ELSE [m EXCEPT !.status = "failed",
                 !.error_message = IF result.message # "" THEN result.message
                                   ELSE "Download failed"]

FinalizeKeepsProgress(m, result) ==
  IF result.success /\ result.file_path # NoPath
  THEN [m EXCEPT !.file_path = result.file_path, !.status = "completed"]
  ELSE [m EXCEPT !.status = "failed",
                 !.error_message = IF result.message # "" THEN result.message
                                   ELSE "Download failed"]

\* utils.py:108-124: the in-memory instance after the download returned
\* `result`; the write that follows is line 120 or line 124.
Finalize(m, result) ==
  IF result.success /\ result.file_path # NoPath
  THEN [m EXCEPT !.file_path = result.file_path,
                 !.status = "completed",
                 !.progress = ProgressMax]
  ELSE [m EXCEPT !.status = "failed",
                 !.error_message = IF result.message # "" THEN result.message
                                   ELSE "Download failed"]

FinalPc(result) ==
  IF result.success /\ result.file_path # NoPath THEN "save_completed"
  ELSE "save_failed"

\* The download has returned `result` to download_video_thread.
Returned(j, result) ==
  /\ mem' = [mem EXCEPT ![j] = Finalize(mem[j], result)]
  /\ pc' = [pc EXCEPT ![j] = FinalPc(result)]

\* downloader.py:276-285: subprocess.Popen; a failure to spawn is caught at
\* line 343 and returned as a failed download.
Spawn(j) ==
  /\ pc[j] = "spawn"
  /\ \/ /\ pc' = [pc EXCEPT ![j] = "stream"]
        /\ current_file' = [current_file EXCEPT ![j] = NoPath]
        /\ current_title' = [current_title EXCEPT ![j] = ""]
        /\ UNCHANGED mem
     \/ /\ Returned(j, DownloadError("spawn failed"))
        /\ UNCHANGED <<current_file, current_title>>
  /\ UNCHANGED <<rec, dl, call, exc, cbPercent, nlines, files, handlerFailed,
                 intake, threads, infoRun, lineLog, cbLog, writer>>

\* Faulty variant of ParseLine: a merger or audio-extraction line does not
\* replace a path that a destination line has set.
ParseLineKeepsDestination(cf, ct, line) ==
  CASE line.shape = "dest" ->
         [current_file |-> line.path, current_title |-> Stem(line.path),
          r |-> "next", n |-> 0]
    [] line.shape = "percent" ->
         LET p == ParsePercent(line.tok)
         IN [current_file |-> cf, current_title |-> ct,
             r |-> CASE p.r = "call" -> "call"
                     [] p.r = "overflow" -> "raise"
                     [] OTHER -> "next",
             n |-> p.n]
    [] line.shape \in {"merger", "extract"} ->
         [current_file |-> IF cf = NoPath THEN line.path ELSE cf,
          current_title |-> ct, r |-> "next", n |-> 0]
    [] OTHER ->
         [current_file |-> cf, current_title |-> ct, r |-> "next", n |-> 0]

\* downloader.py:288-315: what one line does to the parser, whose state is
\* cf (current_file) and ct (current_title): r = "call" calls
\* progress_callback(n, ct), r = "raise" leaves the loop with an exception,
\* r = "next" goes on to the next line.
ParseLine(cf, ct, line) ==
  CASE line.shape = "dest" ->
         [current_file |-> line.path, current_title |-> Stem(line.path),
          r |-> "next", n |-> 0]
    [] line.shape = "percent" ->
         LET p == ParsePercent(line.tok)
         IN [current_file |-> cf, current_title |-> ct,
             r |-> CASE p.r = "call" -> "call"
                     [] p.r = "overflow" -> "raise"
                     [] OTHER -> "next",
             n |-> p.n]
    [] line.shape = "merger" ->
         [current_file |-> IF line.path # NoPath THEN line.path ELSE cf,
          current_title |-> ct, r |-> "next", n |-> 0]
    [] line.shape = "extract" ->
         [current_file |-> line.path, current_title |-> ct,
          r |-> "next", n |-> 0]
    [] OTHER ->
         [current_file |-> cf, current_title |-> ct, r |-> "next", n |-> 0]

\* str(e) of the OverflowError of int(float("inf"))
OverflowText == "cannot convert float infinity to integer"

\* downloader.py:287-315: the worker's download reads one line of the
\* process output
ReadLine(j) ==
  /\ pc[j] = "stream"
  /\ nlines[j] < MaxLines
  /\ nlines' = [nlines EXCEPT ![j] = @ + 1]
  /\ \E line \in Lines :
       LET p == ParseLine(current_file[j], current_title[j], line)
       IN /\ current_file' = [current_file EXCEPT ![j] = p.current_file]
          /\ current_title' = [current_title EXCEPT ![j] = p.current_title]
          /\ CASE p.r = "call" ->
                    /\ cbPercent' = [cbPercent EXCEPT ![j] = p.n]
                    /\ pc' = [pc EXCEPT ![j] = "cb_get"]
                    /\ UNCHANGED mem
               [] p.r = "raise" ->
                    /\ Returned(j, DownloadError(OverflowText))
                    /\ UNCHANGED cbPercent
               [] OTHER -> UNCHANGED <<pc, mem, cbPercent>>
  /\ UNCHANGED <<rec, dl, call, exc, files, handlerFailed,
                 intake, threads, infoRun, lineLog, cbLog, writer>>

\* downloader.py:317-339: end of output, process.wait(), the return code
ProcessExit(j) ==
  /\ pc[j] = "stream"
  /\ \E rc \in {0, 1} :
       Returned(j, Resolve(rc, current_file[j], current_title[j]))
  /\ UNCHANGED <<rec, dl, call, exc, current_file, current_title, cbPercent,
                 nlines, files, handlerFailed,
                 intake, threads, infoRun, lineLog, cbLog, writer>>

\* ----------------------------------------------------- progress_callback
\* Faulty variant of CallbackGet: the inferred title is stored whether or
\* not the row has a title.
CallbackGetOverwritesTitle(j) ==
  /\ pc[j] = "cb_get"
  /\ \E o \in DbOutcomes :
       LET out == GetOutcome(j, o)
           r == retry_on_db_lock(Attempt(j), out).next
           title == current_title[j]
       IN /\ call' = [call EXCEPT ![j] = AfterAttempt(j, out)]
          /\ IF r = "return"
             THEN /\ dl' = [dl EXCEPT ![j] =
                       [rec[j] EXCEPT
                          !.progress = cbPercent[j],
                          !.title = IF title # "" THEN title ELSE @]]
                  /\ pc' = [pc EXCEPT ![j] = "cb_save"]
             ELSE IF r = "again"
             THEN UNCHANGED <<dl, pc>>
             ELSE /\ pc' = [pc EXCEPT ![j] = "stream"]
                  /\ UNCHANGED dl
  /\ UNCHANGED <<rec, mem, exc, current_file, current_title, cbPercent,
                 nlines, files, handlerFailed,
                 intake, threads, infoRun, lineLog, cbLog, writer>>

\* utils.py:83-90: retry_on_db_lock(get_and_update).  Every exception,
\* DoesNotExist included, is swallowed at line 92 and the parser reads on.
CallbackGet(j) ==
  /\ pc[j] = "cb_get"
  /\ \E o \in DbOutcomes :
       LET out == GetOutcome(j, o)
           r == retry_on_db_lock(Attempt(j), out).next
           title == current_title[j]
       IN /\ call' = [call EXCEPT ![j] = AfterAttempt(j, out)]
          /\ IF r = "return"
             THEN /\ dl' = [dl EXCEPT ![j] =
                       [rec[j] EXCEPT
                          !.progress = cbPercent[j],
                          !.title = IF title # "" /\ rec[j].title = ""
                                    THEN title ELSE @]]
                  /\ pc' = [pc EXCEPT ![j] = "cb_save"]
             ELSE IF r = "again"
             THEN UNCHANGED <<dl, pc>>
             ELSE /\ pc' = [pc EXCEPT ![j] = "stream"]
                  /\ UNCHANGED dl
  /\ UNCHANGED <<rec, mem, exc, current_file, current_title, cbPercent,
                 nlines, files, handlerFailed,
                 intake, threads, infoRun, lineLog, cbLog, writer>>

\* Faulty variant of CallbackSave: no try around the callback's body, a
\* failed progress write reaches the worker's handler.
CallbackSaveFailsJob(j) ==
  /\ pc[j] = "cb_save"
  /\ \E o \in DbOutcomes :
       LET r == retry_on_db_lock(Attempt(j), o).next
       IN /\ call' = [call EXCEPT ![j] = AfterAttempt(j, o)]
          /\ IF r = "return"
             THEN /\ rec' = [rec EXCEPT ![j] = Stored(dl[j])]
                  /\ pc' = [pc EXCEPT ![j] = "stream"]
                  /\ dl' = [dl EXCEPT ![j] = NoRow]
                  /\ UNCHANGED exc
             ELSE IF r = "again"
             THEN UNCHANGED <<rec, pc, dl, exc>>
             ELSE /\ pc' = [pc EXCEPT ![j] = "h_get"]
                  /\ exc' = [exc EXCEPT ![j] = ErrText(o)]
                  /\ dl' = [dl EXCEPT ![j] = NoRow]
                  /\ UNCHANGED rec
  /\ UNCHANGED <<mem, current_file, current_title, cbPercent, nlines,
                 files, handlerFailed,
                 intake, threads, infoRun, lineLog, cbLog, writer>>

\* Faulty variant of CallbackSave: the progress is written to the rows that
\* are downloading, not to the row of the worker's id.
CallbackSaveByStatus(j) ==
  /\ pc[j] = "cb_save"
  /\ \E o \in DbOutcomes :
       LET r == retry_on_db_lock(Attempt(j), o).next
       IN /\ call' = [call EXCEPT ![j] = AfterAttempt(j, o)]
          /\ IF r = "return"
             THEN /\ rec' = [k \in DOMAIN rec |->
                              IF rec[k].exists /\ rec[k].status = "downloading"
                              THEN [rec[k] EXCEPT !.progress = dl[j].progress]
                              ELSE rec[k]]
                  /\ pc' = [pc EXCEPT ![j] = "stream"]
                  /\ dl' = [dl EXCEPT ![j] = NoRow]
             ELSE IF r = "again"
             THEN UNCHANGED <<rec, pc, dl>>
             ELSE /\ pc' = [pc EXCEPT ![j] = "stream"]
                  /\ dl' = [dl EXCEPT ![j] = NoRow]
                  /\ UNCHANGED rec
  /\ UNCHANGED <<mem, exc, current_file, current_title, cbPercent, nlines,
                 files, handlerFailed,
                 intake, threads, infoRun, lineLog, cbLog, writer>>

\* utils.py:91: safe_save(dl)
CallbackSave(j) ==
  /\ pc[j] = "cb_save"
  /\ \E o \in DbOutcomes :
       LET r == retry_on_db_lock(Attempt(j), o).next
       IN /\ call' = [call EXCEPT ![j] = AfterAttempt(j, o)]
          /\ IF r = "return"
             THEN /\ rec' = [rec EXCEPT ![j] = Stored(dl[j])]
                  /\ pc' = [pc EXCEPT ![j] = "stream"]
                  /\ dl' = [dl EXCEPT ![j] = NoRow]
             ELSE IF r = "again"
             THEN UNCHANGED <<rec, pc, dl>>
             ELSE /\ pc' = [pc EXCEPT ![j] = "stream"]
                  /\ dl' = [dl EXCEPT ![j] = NoRow]
                  /\ UNCHANGED rec
  /\ UNCHANGED <<mem, exc, current_file, current_title, cbPercent, nlines,
                 files, handlerFailed,
                 intake, threads, infoRun, lineLog, cbLog, writer>>

\* Faulty variant of SaveCompleted: no `else`, the failed branch runs after
\* the completed write.
SaveCompletedFallsThrough(j) ==
  safe_save(j, "save_completed", "save_failed",
            [mem[j] EXCEPT !.status = "failed", !.error_message = "Download failed"])

\* Faulty variant of SaveFailed: the failed state is set in memory only.
SaveFailedNotWritten(j) ==
  /\ pc[j] = "save_failed"
  /\ pc' = [pc EXCEPT ![j] = "done"]
  /\ UNCHANGED <<rec, mem, dl, call, exc, current_file, current_title,
                 cbPercent, nlines, files, handlerFailed,
                 intake, threads, infoRun, lineLog, cbLog, writer>>

\* utils.py:120 and 124: the terminal write; the worker ends after it.
SaveCompleted(j) == safe_save(j, "save_completed", "done", mem[j])

SaveFailed(j) == safe_save(j, "save_failed", "done", mem[j])

\* ------------------------------------------ the worker's exception handler
\* utils.py:131-136: the row is loaded again and marked failed with str(e);
\* an exception in here is swallowed (line 138) and the worker ends.
HandlerGet(j) ==
  /\ pc[j] = "h_get"
  /\ \E o \in DbOutcomes :
       LET out == GetOutcome(j, o)
           r == retry_on_db_lock(Attempt(j), out).next
       IN /\ call' = [call EXCEPT ![j] = AfterAttempt(j, out)]
          /\ IF r = "return"
             THEN /\ mem' = [mem EXCEPT ![j] =
                       [rec[j] EXCEPT !.status = "failed",
                                      !.error_message = exc[j]]]
                  /\ pc' = [pc EXCEPT ![j] = "h_save"]
                  /\ UNCHANGED handlerFailed
             ELSE IF r = "again"
             THEN UNCHANGED <<mem, pc, handlerFailed>>
             ELSE /\ pc' = [pc EXCEPT ![j] = "done"]
                  /\ handlerFailed' = [handlerFailed EXCEPT ![j] = TRUE]
                  /\ UNCHANGED mem
  /\ UNCHANGED <<rec, dl, exc, current_file, current_title, cbPercent,
                 nlines, files,
                 intake, threads, infoRun, lineLog, cbLog, writer>>

\* Faulty variant of HandlerSave: no inner try, a failed write in the
\* handler leaves the thread function as an exception.
HandlerSaveRaises(j) ==
  /\ pc[j] = "h_save"
  /\ \E o \in DbOutcomes :
       LET r == retry_on_db_lock(Attempt(j), o).next
       IN /\ call' = [call EXCEPT ![j] = AfterAttempt(j, o)]
          /\ IF r = "return"
             THEN /\ rec' = [rec EXCEPT ![j] = Stored(mem[j])]
                  /\ pc' = [pc EXCEPT ![j] = "done"]
                  /\ UNCHANGED handlerFailed
             ELSE IF r = "again"
             THEN UNCHANGED <<rec, pc, handlerFailed>>
             ELSE /\ pc' = [pc EXCEPT ![j] = "raised"]
                  /\ handlerFailed' = [handlerFailed EXCEPT ![j] = TRUE]
                  /\ UNCHANGED rec
  /\ UNCHANGED <<mem, dl, exc, current_file, current_title, cbPercent,
                 nlines, files,
                 intake, threads, infoRun, lineLog, cbLog, writer>>

\* Faulty variant of HandlerSave: a write that failed is made once more
\* outside the retries and lands.
HandlerSaveWritesAnyway(j) ==
  /\ pc[j] = "h_save"
  /\ \E o \in DbOutcomes :
       LET r == retry_on_db_lock(Attempt(j), o).next
       IN /\ call' = [call EXCEPT ![j] = AfterAttempt(j, o)]
          /\ IF r = "return"
             THEN /\ rec' = [rec EXCEPT ![j] = Stored(mem[j])]
                  /\ pc' = [pc EXCEPT ![j] = "done"]
                  /\ UNCHANGED handlerFailed
             ELSE IF r = "again"
             THEN UNCHANGED <<rec, pc, handlerFailed>>
             ELSE /\ pc' = [pc EXCEPT ![j] = "done"]
                  /\ handlerFailed' = [handlerFailed EXCEPT ![j] = TRUE]
                  /\ rec' = [rec EXCEPT ![j] = Stored(mem[j])]
  /\ UNCHANGED <<mem, dl, exc, current_file, current_title, cbPercent,
                 nlines, files,
                 intake, threads, infoRun, lineLog, cbLog, writer>>

\* utils.py:137: safe_save(download) inside the handler
HandlerSave(j) ==
  /\ pc[j] = "h_save"
  /\ \E o \in DbOutcomes :
       LET r == retry_on_db_lock(Attempt(j), o).next
       IN /\ call' = [call EXCEPT ![j] = AfterAttempt(j, o)]
          /\ IF r = "return"
             THEN /\ rec' = [rec EXCEPT ![j] = Stored(mem[j])]
                  /\ pc' = [pc EXCEPT ![j] = "done"]
                  /\ UNCHANGED handlerFailed
             ELSE IF r = "again"
             THEN UNCHANGED <<rec, pc, handlerFailed>>
             ELSE /\ pc' = [pc EXCEPT ![j] = "done"]
                  /\ handlerFailed' = [handlerFailed EXCEPT ![j] = TRUE]
                  /\ UNCHANGED rec
  /\ UNCHANGED <<mem, dl, exc, current_file, current_title, cbPercent,
                 nlines, files,
                 intake, threads, infoRun, lineLog, cbLog, writer>>

\* ------------------------------------------------------------ environment
Remove(seq, p) == SelectSeq(seq, LAMBDA f : f # p)

\* The external process of job j writes (or rewrites) a file of the shared
\* output directory while it runs.
ToolWrites(j, p) ==
  /\ pc[j] \in {"stream", "cb_get", "cb_save"}
  /\ InDir(p) \/ Len(files) < MaxFiles
  /\ files # Append(Remove(files, p), p) \/ writer[p] # j
  /\ files' = Append(Remove(files, p), p)
  /\ writer' = [writer EXCEPT ![p] = j]
  /\ UNCHANGED <<rec, pc, mem, dl, call, exc, current_file, current_title,
                 cbPercent, nlines, handlerFailed,
                 intake, threads, infoRun, lineLog, cbLog>>

\* Faulty variant of delete_download: the row is looked up by id alone.
delete_download_any_owner(j, s) ==
  /\ rec[j].exists
  /\ files' = IF rec[j].file_path # NoPath THEN Remove(files, rec[j].file_path)
              ELSE files
  /\ writer' = IF rec[j].file_path # NoPath
               THEN [writer EXCEPT ![rec[j].file_path] = NoJob]
               ELSE writer
  /\ rec' = [rec EXCEPT ![j] = NoRow]
  /\ UNCHANGED <<pc, mem, dl, call, exc, current_file, current_title,
                 cbPercent, nlines, handlerFailed,
                 intake, threads, infoRun, lineLog, cbLog>>

\* views.py:157-173, a request of session s: the row is looked up by id and
\* session (404 otherwise); its file is unlinked if there is one, and the
\* row is deleted, whatever its worker is doing.
delete_download(j, s) ==
  /\ rec[j].exists
  /\ intake[j].session_id = s
  /\ files' = IF rec[j].file_path # NoPath THEN Remove(files, rec[j].file_path)
              ELSE files
  /\ writer' = IF rec[j].file_path # NoPath
               THEN [writer EXCEPT ![rec[j].file_path] = NoJob]
               ELSE writer
  /\ rec' = [rec EXCEPT ![j] = NoRow]
  /\ UNCHANGED <<pc, mem, dl, call, exc, current_file, current_title,
                 cbPercent, nlines, handlerFailed,
                 intake, threads, infoRun, lineLog, cbLog>>

\* ------------------------------------------------------------ the reads
\* models.py:53-63: the parts of the duration as they are printed
duration_formatted(d) ==
  [hours |-> d \div 3600, minutes |-> (d % 3600) \div 60, seconds |-> d % 60]

\* views.py:111 and get_object_or_404 / Http404: an answer with status 404
\* and nothing of any row.
NotFound(text) == [code |-> 404, data |-> [error |-> text]]

\* The lookup VideoDownload.objects.get(id=j, session_id=s) finds a row.
Owns(j, s) == rec[j].exists /\ intake[j].session_id = s

\* views.py:91-111, a request of session s for id j
get_progress(j, s) ==
  IF Owns(j, s)
  THEN [code |-> 200,
        data |-> [id |-> j,
                  title |-> IF rec[j].title # "" THEN rec[j].title
                            ELSE "Processing...",
                  status |-> rec[j].status,
                  progress |-> rec[j].progress,
                  error_message |-> rec[j].error_message,
                  file_available |-> /\ rec[j].file_path # NoPath
                                     /\ rec[j].status = "completed",
                  thumbnail |-> rec[j].thumbnail,
                  duration |-> duration_formatted(rec[j].duration),
                  format_type |-> intake[j].format_type]]
  ELSE NotFound("Download not found")

\* Faulty variant of download_file: lines 142-143 are missing.
download_file_unchecked(j, s) ==
  IF ~ Owns(j, s) THEN NotFound("No VideoDownload matches the given query.")
  ELSE IF rec[j].file_path # NoPath /\ ~ InDir(rec[j].file_path)
  THEN NotFound("File not found on disk")
  ELSE [code |-> 200,
        data |-> [file |-> rec[j].file_path,
                  content_type |-> IF intake[j].format_type = "mp3"
                                   THEN "audio/mpeg" ELSE "video/mp4"]]

\* views.py:135-154, a request of session s for id j
download_file(j, s) ==
  IF ~ Owns(j, s) THEN NotFound("No VideoDownload matches the given query.")
  ELSE IF rec[j].file_path = NoPath \/ rec[j].status # "completed"
  THEN NotFound("File not available")
  ELSE IF ~ InDir(rec[j].file_path)
  THEN NotFound("File not found on disk")
  ELSE [code |-> 200,
        data |-> [file |-> rec[j].file_path,
                  content_type |-> IF intake[j].format_type = "mp3"
                                   THEN "audio/mpeg" ELSE "video/mp4"]]

Worker(j) ==
  \/ Load(j)
  \/ SaveFetching(j)
  \/ FetchInfo(j)
  \/ SaveInfo(j)
  \/ SaveDownloading(j)
  \/ Spawn(j)
  \/ ReadLine(j)
  \/ ProcessExit(j)
  \/ CallbackGet(j)
  \/ CallbackSave(j)
  \/ SaveCompleted(j)
  \/ SaveFailed(j)
  \/ HandlerGet(j)
  \/ HandlerSave(j)

\* One job, submitted by session s1 with the default form, against every
\* answer of the store.  The worker reads none of the intake fields but
\* format_type and quality, and these only to build its command.
Next ==
  \/ \E j \in Jobs : index(j, "s1", DefaultForm)
  \/ \E j \in Jobs : Worker(j)
  \/ \E j \in Jobs : \E p \in Paths : ToolWrites(j, p)
  \/ \E j \in Jobs : \E s \in Sessions : delete_download(j, s)


Spec == Init /\ [][Next]_vars

\* Every started worker thread keeps being scheduled, and the external
\* process ends: the worker takes its next step as long as it has one.
FairSpec == Spec /\ \A j \in Jobs : WF_vars(Worker(j))

\* --------------------------------------------------------- the intake alone
\* The steps of a worker whose store operations all succeed at once and
\* whose row is not deleted: no exception reaches its handler.
Download(j) ==
  \/ Load(j)
  \/ SaveFetching(j)
  \/ FetchInfo(j)
  \/ SaveInfo(j)
  \/ SaveDownloading(j)
  \/ Spawn(j)
  \/ ReadLine(j)
  \/ ProcessExit(j)
  \/ CallbackGet(j)
  \/ CallbackSave(j)
  \/ SaveCompleted(j)
  \/ SaveFailed(j)

\* Every form of every session, against a store that answers at once.
IntakeNext ==
  \/ \E j \in Jobs : \E s \in Sessions : \E form \in Forms : index(j, s, form)
  \/ \E j \in Jobs : Download(j) /\ call'[j].res \in {"none", "ok"}
  \/ \E j \in Jobs : \E p \in Paths : ToolWrites(j, p)

IntakeSpec == Init /\ [][IntakeNext]_vars

\* --------------------------------------------------------- the parser alone
\* _execute_download run with a callback that writes down its calls, on
\* every sequence of up to MaxLines + 1 lines.
ParserLines ==
  Lines \cup [shape : {"percent"}, path : {NoPath},
              tok : {[kind |-> "num", tenths |-> -15]}]

\* The directories of up to MaxFiles + 1 files, oldest file first.
Directories ==
  {d \in UNION {[1..n -> DiskPaths] : n \in 0..(MaxFiles + 1)} :
     \A i \in DOMAIN d : \A k \in DOMAIN d : i # k => d[i] # d[k]}

\* The parser is about to read its first line; the output directory is one
\* of dirs.
ParserStart(dirs) ==
  /\ rec = [j \in Jobs |-> NoRow]
  /\ pc = [j \in Jobs |-> "parse"]
  /\ mem = [j \in Jobs |-> NoRow]
  /\ dl = [j \in Jobs |-> NoRow]
  /\ call = [j \in Jobs |-> NoCall]
  /\ exc = [j \in Jobs |-> ""]
  /\ current_file = [j \in Jobs |-> NoPath]
  /\ current_title = [j \in Jobs |-> ""]
  /\ cbPercent = [j \in Jobs |-> 0]
  /\ nlines = [j \in Jobs |-> 0]
  /\ files \in dirs
  /\ handlerFailed = [j \in Jobs |-> FALSE]
  /\ intake = [j \in Jobs |-> NoIntake]
  /\ threads = [j \in Jobs |-> 0]
  /\ infoRun = [j \in Jobs |-> "unset"]
  /\ lineLog = [j \in Jobs |-> <<>>]
  /\ cbLog = [j \in Jobs |-> <<>>]
  /\ writer = Unwritten

ParserInit == ParserStart({<<>>})

\* downloader.py:287-315 and 343-345: the loop reads one more line; the
\* message of the result is kept in exc when the loop is left.  Runs of up
\* to n lines are read.
ParserReadUpTo(j, n) ==
  /\ pc[j] = "parse"
  /\ Len(lineLog[j]) < n
  /\ \E line \in ParserLines :
       LET p == ParseLine(current_file[j], current_title[j], line)
       IN /\ lineLog' = [lineLog EXCEPT ![j] = Append(@, line)]
          /\ current_file' = [current_file EXCEPT ![j] = p.current_file]
          /\ current_title' = [current_title EXCEPT ![j] = p.current_title]
          /\ cbLog' = [cbLog EXCEPT ![j] =
                         IF p.r = "call"
                         THEN Append(@, [percent |-> p.n,
                                         title |-> current_title[j]])
                         ELSE @]
          /\ pc' = [pc EXCEPT ![j] =
                      IF p.r = "raise" THEN "parse_raised" ELSE "parse"]
          /\ exc' = [exc EXCEPT ![j] =
                       IF p.r = "raise" THEN DownloadError(OverflowText).message
                       ELSE @]
          /\ mem' = [mem EXCEPT ![j] =
                       IF p.r = "raise"
                       THEN Finalize(@, DownloadError(OverflowText))
                       ELSE @]
  /\ UNCHANGED <<rec, dl, call, cbPercent, nlines, files, handlerFailed,
                 intake, threads, infoRun, writer>>

\* downloader.py:317-339: the output has ended and the process has exited;
\* the result is kept as the caller would take it (utils.py:108-123), its
\* message in exc.
ParserEnd(j) ==
  /\ pc[j] = "parse"
  /\ \E rc \in {0, 1} :
       LET result == Resolve(rc, current_file[j], current_title[j])
       IN /\ exc' = [exc EXCEPT ![j] = result.message]
          /\ mem' = [mem EXCEPT ![j] = Finalize(mem[j], result)]
  /\ pc' = [pc EXCEPT ![j] = "parse_returned"]
  /\ UNCHANGED <<rec, dl, call, current_file, current_title, cbPercent,
                 nlines, files, handlerFailed, intake, threads, infoRun,
                 lineLog, cbLog, writer>>

ParserRead(j) == ParserReadUpTo(j, MaxLines + 1)

ParserNext ==
  \/ \E j \in Jobs : ParserRead(j)
  \/ \E j \in Jobs : ParserEnd(j)

ParserSpec == ParserInit /\ [][ParserNext]_vars

\* ------------------------------------------- the parser and the directory
\* _execute_download on every sequence of up to MaxLines lines, in front of
\* every directory.
ResolveInit == ParserStart(Directories)

ResolveRead(j) == ParserReadUpTo(j, MaxLines)

ResolveNext ==
  \/ \E j \in Jobs : ResolveRead(j)
  \/ \E j \in Jobs : ParserEnd(j)

ResolveSpec == ResolveInit /\ [][ResolveNext]_vars

\* ------------------------------------------------------ two jobs at once
\* The ids of two jobs that are submitted and run side by side; in PairSpec
\* every variable is a function of Pair.
Pair == {1, 2}

PairInit ==
  /\ rec = [j \in Pair |-> NoRow]
  /\ pc = [j \in Pair |-> "new"]
  /\ mem = [j \in Pair |-> NoRow]
  /\ dl = [j \in Pair |-> NoRow]
  /\ call = [j \in Pair |-> NoCall]
  /\ exc = [j \in Pair |-> ""]
  /\ current_file = [j \in Pair |-> NoPath]
  /\ current_title = [j \in Pair |-> ""]
  /\ cbPercent = [j \in Pair |-> 0]
  /\ nlines = [j \in Pair |-> 0]
  /\ files = <<>>
  /\ handlerFailed = [j \in Pair |-> FALSE]
  /\ intake = [j \in Pair |-> NoIntake]
  /\ threads = [j \in Pair |-> 0]
  /\ infoRun = [j \in Pair |-> "unset"]
  /\ lineLog = [j \in Pair |-> <<>>]
  /\ cbLog = [j \in Pair |-> <<>>]
  /\ writer = Unwritten

\* The environment of a job in PairSpec: the store is found locked by the
\* other writer at most once per operation and answers the retry, and it
\* turns away with an error no write but the one of a failed state, and
\* this one only in the worker's body; the metadata invocation gives the
\* full document; the process is started, prints nothing but lines about
\* its own file and "42.5%", and exits with code 0.
PairEnv(j) ==
  /\ call[j].outs \in {<<>>, <<"ok">>, <<"locked">>, <<"locked", "ok">>,
                        <<"error">>}
  /\ call[j].outs = <<"error">> => mem[j].status = "failed" /\ ~ handlerFailed[j]
  /\ infoRun[j] \in {"unset", "info"}
  /\ current_file[j] \in {NoPath, <<"foo bar", "mp4">>}
  /\ cbPercent[j] \in {0, 42}
  /\ mem[j].error_message \in {"", "Download completed but file not found",
                                "internal error"}

\* start_download for each of the two ids, the two worker threads taking
\* their steps in any order, and the two processes writing to the one
\* output directory.
PairNext ==
  \/ \E j \in Pair : index(j, "s1", DefaultForm)
  \/ \E j \in Pair : Worker(j) /\ PairEnv(j)'
  \/ \E j \in Pair : \E p \in Paths : ToolWrites(j, p)

PairSpec == PairInit /\ [][PairNext]_vars

\* ------------------------------------------------------------------ claims
Terminal == {"completed", "failed"}

\* Position of a status in pending -> fetching -> downloading -> terminal
Rank(st) ==
  CASE st = "pending" -> 0
    [] st = "fetching" -> 1
    [] st = "downloading" -> 2
    [] OTHER -> 3

\* C1: the stored status of every row is one of the five choices of the
\* model (the code's "fetching" is the fetching_metadata state), and once
\* the stored status is completed or failed no later write changes it.
C1_StatusClosedAndFinal ==
  /\ [](\A j \in Jobs : rec[j].exists => rec[j].status \in STATUS_CHOICES)
  /\ [][\A j \in Jobs :
          (rec[j].exists /\ rec[j].status \in Terminal /\ rec'[j].exists)
            => rec'[j].status = rec[j].status]_vars

\* The worker has ended after its handler stored the failed state.
C1_Witness ==
  \E j \in Jobs :
    /\ pc[j] = "done"
    /\ rec[j].exists
    /\ rec[j].status = "failed"
    /\ rec[j].error_message = "database is locked"

\* C2: a row in a terminal state has a non-empty file_path exactly when it
\* is completed, whether line 120, line 124 or the handler wrote the state.
C2_PathIffCompleted ==
  \A j \in Jobs :
    (rec[j].exists /\ rec[j].status \in Terminal)
      => (rec[j].file_path # NoPath <=> rec[j].status = "completed")

\* A failed state written after a process exit with no file to be found.
C2_Witness ==
  \E j \in Jobs :
    /\ rec[j].exists
    /\ rec[j].status = "failed"
    /\ rec[j].error_message = "Download completed but file not found"
    /\ rec[j].file_path = NoPath

\* C3: every write that changes the stored status of a row moves it forward
\* in pending -> fetching -> downloading -> {completed, failed}; none stores
\* pending again, and completed only replaces downloading.
C3_StatusForward ==
  [][\A j \in Jobs :
       (rec[j].exists /\ rec'[j].exists /\ rec'[j].status # rec[j].status)
         => /\ Rank(rec'[j].status) > Rank(rec[j].status)
            /\ rec'[j].status # "pending"
            /\ (rec'[j].status = "completed" => rec[j].status = "downloading")]_vars

\* A row that went through all the states and is completed.
C3_Witness ==
  \E j \in Jobs :
    /\ rec[j].exists
    /\ rec[j].status = "completed"
    /\ rec[j].title = "Meta Title"
    /\ pc[j] = "done"

\* C4: a row with a non-empty error_message is failed.
C4_ErrorOnlyIfFailed ==
  \A j \in Jobs :
    (rec[j].exists /\ rec[j].error_message # "") => rec[j].status = "failed"

\* A row that carries the message of a failed process.
C4_Witness ==
  \E j \in Jobs :
    /\ rec[j].exists
    /\ rec[j].error_message = "Download failed"
    /\ rec[j].status = "failed"

\* C5: a completed row has progress 100.
C5_CompletedIsHundred ==
  \A j \in Jobs :
    (rec[j].exists /\ rec[j].status = "completed")
      => rec[j].progress = ProgressMax

\* Completed after the last progress callback reported 42.
C5_Witness ==
  \E j \in Jobs :
    /\ rec[j].exists
    /\ rec[j].status = "completed"
    /\ rec[j].progress = ProgressMax
    /\ cbPercent[j] = 42

\* C6: the stored progress of every row is between 0 and 100.
C6_ProgressInRange ==
  \A j \in Jobs :
    rec[j].exists => rec[j].progress \in ProgressMin..ProgressMax

\* ------------------------------------------------- claims on the retries
AllLocked(outs) == \A i \in 1..Len(outs) : outs[i] = "locked"

IsPrefix(s, t) == Len(s) <= Len(t) /\ \A i \in 1..Len(s) : s[i] = t[i]

FiveDelays == <<100, 200, 400, 800, 1600>>

FourDelays == <<100, 200, 400, 800>>

\* C7 as stated: a call that gave up on a locked store has slept the five
\* delays 100, 200, 400, 800 and 1600 ms before the error propagated.
C7_FiveRetriesFiveDelays ==
  \A j \in Jobs :
    (call[j].res = "raised" /\ AllLocked(call[j].outs))
      => call[j].slept = FiveDelays

\* C7 amended: a call makes at most 5 attempts; while the store stays locked
\* it sleeps 100, 200, 400 and 800 ms between them, in this order; the fifth
\* locked attempt raises without a sleep, so 1600 ms is never slept.
C7_FiveAttemptsFourDelays ==
  \A j \in Jobs :
    /\ Len(call[j].outs) <= max_retries
    /\ IsPrefix(call[j].slept, FourDelays)
    /\ call[j].res = "running"
         => (AllLocked(call[j].outs) /\ Len(call[j].slept) = Len(call[j].outs))
    /\ (call[j].res = "raised" /\ AllLocked(call[j].outs))
         => (Len(call[j].outs) = max_retries /\ call[j].slept = FourDelays)

\* A call that raised after five locked attempts.
C7_Witness ==
  \E j \in Jobs :
    /\ call[j].res = "raised"
    /\ call[j].outs = <<"locked", "locked", "locked", "locked", "locked">>

\* C8: locked, locked, success: the call returns after these three attempts
\* and has slept 100 ms and 200 ms; five locked attempts in a row: the call
\* has raised and there is no sixth attempt.
C8_TwoFailuresThenSuccess ==
  \A j \in Jobs :
    /\ call[j].outs = <<"locked", "locked", "ok">>
         => (call[j].res = "ok" /\ call[j].slept = <<100, 200>>)
    /\ (Len(call[j].outs) >= 5 /\ AllLocked(SubSeq(call[j].outs, 1, 5)))
         => (call[j].res = "raised" /\ Len(call[j].outs) = 5)

\* A write that landed at its third attempt.
C8_Witness ==
  \E j \in Jobs :
    /\ call[j].outs = <<"locked", "locked", "ok">>
    /\ call[j].res = "ok"
    /\ pc[j] = "info"
    /\ rec[j].status = "fetching"

\* C9: an attempt that fails with anything but the locked error is the last
\* attempt of its call: the call has raised and has not slept after it.
C9_OtherErrorsNotRetried ==
  \A j \in Jobs :
    (/\ call[j].outs # <<>>
     /\ call[j].outs[Len(call[j].outs)] \in {"operr", "error", "missing"})
      => /\ call[j].res = "raised"
         /\ Len(call[j].slept) = Len(call[j].outs) - 1

\* A write whose first attempt failed with another OperationalError.
C9_Witness ==
  \E j \in Jobs :
    /\ call[j].outs = <<"operr">>
    /\ call[j].res = "raised"
    /\ call[j].slept = <<>>
    /\ pc[j] = "h_get"

\* ---------------------------------------------------- claims on the end
\* C10 as stated: a worker that has ended leaves its row, if there is one,
\* completed or failed.
C10_EndsTerminal ==
  \A j \in Jobs :
    (pc[j] = "done" /\ rec[j].exists) => rec[j].status \in Terminal

\* C10 amended: every started worker ends, and the row of an ended worker is
\* completed or failed unless the load or the write in the worker's own
\* exception handler failed, in which case it keeps a non-terminal status.
C10_EndsTerminalUnlessHandlerFails ==
  /\ \A j \in Jobs : [](pc[j] # "new" => <>(pc[j] = "done"))
  /\ [](\A j \in Jobs :
          (pc[j] = "done" /\ rec[j].exists)
            => (rec[j].status \in Terminal <=> ~handlerFailed[j]))

\* The worker ended through its handler, which stored the failed state.
C10_Witness ==
  \E j \in Jobs :
    /\ pc[j] = "done"
    /\ rec[j].exists
    /\ rec[j].status = "failed"
    /\ exc[j] = "disk I/O error"
    /\ ~handlerFailed[j]
\* The positions of a worker thread inside download_video_thread; "done" is
\* its normal return.
Running ==
  {"load", "save_fetching", "info", "save_info", "save_downloading", "spawn",
   "stream", "cb_get", "cb_save", "save_completed", "save_failed", "h_get",
   "h_save"}

\* A started worker is at a step of the function that it can take, or has
\* returned.
CanStepOrReturned(j) ==
  /\ pc[j] \in {"new", "done"} \cup Running
  /\ pc[j] \in Running => ENABLED Worker(j)

\* C11: the worker never lets an error escape: wherever something fails
\* (row missing, store locked past the retries at any write, spawn failure,
\* parser failure, failure inside the handler), a started worker is never
\* anywhere but at a step of the function, and it returns normally.
C11_NoErrorEscapes ==
  \A j \in Jobs :
    /\ [] CanStepOrReturned(j)
    /\ (pc[j] # "new") ~> (pc[j] = "done")

\* C11 case: the worker has returned after a failure of the body and a
\* failure inside its handler.
C11_Witness ==
  \E j \in Jobs : pc[j] = "done" /\ handlerFailed[j] /\ exc[j] # ""

\* A row as it is while the download of a job without metadata starts.
DownloadingDefaults == [VideoDownload EXCEPT !.status = "downloading"]

\* C12: a failed metadata invocation (non-zero exit, timeout, unparseable
\* or empty output) does not fail the job: the worker goes straight on to
\* the downloading write with title, thumbnail, uploader and duration at
\* their defaults, and the download starts from such a row.
C12_InfoFailureNotFatal ==
  /\ [] /\ \A run \in InfoRuns :
             run.kind # "json" => ~ get_video_info(run).some
        /\ \A j \in Jobs :
             infoRun[j] = "none" =>
               /\ pc[j] \in {"save_downloading", "spawn"}
                    => mem[j] = DownloadingDefaults
               /\ pc[j] = "spawn" /\ rec[j].exists
                    => rec[j] = DownloadingDefaults
               /\ rec[j].exists
                    => /\ rec[j].thumbnail = ""
                       /\ rec[j].uploader = ""
                       /\ rec[j].duration = 0
  /\ [][ \A j \in Jobs :
           pc[j] = "info" /\ infoRun'[j] = "none"
             => /\ pc'[j] = "save_downloading"
                /\ mem'[j] = [mem[j] EXCEPT !.status = "downloading"]
                /\ rec'[j] = rec[j] ]_vars

\* C12 case: the metadata invocation failed and the download is running on
\* a row that is downloading with the defaults.
C12_Witness ==
  \E j \in Jobs :
    /\ infoRun[j] = "none"
    /\ pc[j] = "stream"
    /\ rec[j] = DownloadingDefaults

C14_FileOnlyWhenCompleted ==
  \A j \in Jobs : \A s \in Sessions :
    LET ready == rec[j].status = "completed" /\ rec[j].file_path # NoPath
    IN /\ download_file(j, s).code \in {200, 404}
       /\ download_file(j, s).code = 200
            => ready /\ download_file(j, s).data.file = rec[j].file_path
       /\ Owns(j, s) /\ ~ ready => download_file(j, s).code = 404
       /\ get_progress(j, s).code = 200
            => (get_progress(j, s).data.file_available <=> ready)

\* C14 case: the owner's reads of a completed row with its file on disk.
C14_Witness ==
  \E j \in Jobs :
    /\ rec[j].status = "completed"
    /\ download_file(j, intake[j].session_id).code = 200
    /\ get_progress(j, intake[j].session_id).data.file_available

\* C15: a progress read for the id of an existing row answers 200 with the
\* stored title, progress and status, whoever asks; a read for an id without
\* a row answers 404.
C15_ExistingRowAnswered ==
  \A j \in Jobs : \A s \in Sessions :
    IF rec[j].exists
    THEN /\ get_progress(j, s).code = 200
         /\ rec[j].title # "" => get_progress(j, s).data.title = rec[j].title
         /\ get_progress(j, s).data.progress = rec[j].progress
         /\ get_progress(j, s).data.status = rec[j].status
    ELSE get_progress(j, s).code = 404

\* The form that was submitted for the row of job j.
Submitted(j) ==
  [url |-> intake[j].url, format_type |-> intake[j].format_type,
   quality |-> intake[j].asked]

\* C16: every valid submission creates exactly one row, pending with
\* progress 0 and empty file path and error message, and starts exactly one
\* worker for its id; a submission that fails validation creates no row and
\* starts no worker; no id ever has more than one worker.
C16_OneRowOneWorker ==
  /\ [] \A j \in Jobs :
          /\ threads[j] <= 1
          /\ threads[j] = 1 <=> pc[j] # "new"
          /\ pc[j] = "new" => ~ rec[j].exists /\ intake[j] = NoIntake
          /\ pc[j] # "new" => is_valid(Submitted(j))
  /\ [][ \A j \in Jobs :
           pc[j] = "new" /\ pc'[j] # "new"
             => /\ is_valid(Submitted(j)')
                /\ ~ rec[j].exists
                /\ rec'[j].exists
                /\ rec'[j].status = "pending"
                /\ rec'[j].progress = 0
                /\ rec'[j].file_path = NoPath
                /\ rec'[j].error_message = ""
                /\ threads'[j] = threads[j] + 1
                /\ pc'[j] = "load" ]_vars

\* C16 case: the row and the worker of a valid submission, made by the
\* second session with a short link, before the worker's first step.
C16_Witness ==
  \E j \in Jobs :
    /\ pc[j] = "load" /\ call[j] = NoCall
    /\ rec[j] = VideoDownload
    /\ threads[j] = 1
    /\ intake[j].session_id = "s2"
    /\ intake[j].url.host = "youtu.be"

\* C17: audio jobs do not depend on the quality selector: two audio forms
\* that differ in quality alone are stored alike, with quality best, and
\* the command of an audio row is the same whatever quality it were given.
C17_AudioIgnoresQuality ==
  /\ \A f \in Forms : \A q \in QUALITY_CHOICES :
       is_valid(f) /\ f.format_type = "mp3"
       => LET g == [f EXCEPT !.quality = q]
          IN /\ clean(f) = clean(g)
             /\ clean(g).quality = "best"
             /\ FetchCommand(clean(f)) = FetchCommand(clean(g))
  /\ \A j \in Jobs :
       intake[j].format_type = "mp3" =>
         /\ intake[j].quality = "best"
         /\ \A q \in QUALITY_CHOICES :
              FetchCommand([intake[j] EXCEPT !.quality = q])
                = FetchCommand(intake[j])
         /\ FetchCommand(intake[j]).f = AUDIO_FORMAT

\* C17 case: an audio job submitted with quality 480p has completed.
C17_Witness ==
  \E j \in Jobs :
    /\ intake[j].format_type = "mp3"
    /\ intake[j].asked = "480p"
    /\ rec[j].status = "completed"
    /\ pc[j] = "done"

\* The line a parser step has just read.
JustRead(j) == lineLog[j][Len(lineLog[j])]

\* C18: a destination line sets the candidate path to the announced path
\* and the working title to its base name without extension ("foo bar.mp4"
\* gives "foo bar"), and no callback is made for the line.
C18_DestinationSetsTitle ==
  /\ [] (Stem(<<"foo bar", "mp4">>) = "foo bar")
  /\ [][ \A j \in Jobs :
           Len(lineLog'[j]) = Len(lineLog[j]) + 1 /\ JustRead(j)'.shape = "dest"
             => /\ current_file'[j] = JustRead(j)'.path
                /\ current_title'[j] = JustRead(j)'.path[1]
                /\ cbLog'[j] = cbLog[j]
                /\ pc'[j] = "parse" ]_vars

\* C18 case: the line "[download] Destination: foo bar.mp4" was read after a
\* callback had been made.
C18_Witness ==
  \E j \in Jobs :
    /\ Len(lineLog[j]) = 2
    /\ JustRead(j).shape = "dest" /\ JustRead(j).path = <<"foo bar", "mp4">>
    /\ current_title[j] = "foo bar"
    /\ Len(cbLog[j]) = 1

\* The integer part of a number given in tenths.
IntegerPart(t) ==
  CHOOSE n \in -200..200 :
    IF t >= 0 THEN 10 * n <= t /\ t < 10 * (n + 1)
    ELSE 10 * (n - 1) < t /\ t <= 10 * n

\* The calls that lines ask for when the working title is title.
RECURSIVE ExpectedCalls(_, _)
ExpectedCalls(lines, title) ==
  IF lines = <<>> THEN <<>>
  ELSE LET l == Head(lines)
       IN IF l.shape = "dest" THEN ExpectedCalls(Tail(lines), l.path[1])
          ELSE IF l.shape = "percent" /\ l.tok.kind = "num"
          THEN <<[percent |-> IntegerPart(l.tok.tenths), title |-> title]>>
                 \o ExpectedCalls(Tail(lines), title)
          ELSE ExpectedCalls(Tail(lines), title)

\* C19: every progress line with a well-formed percentage makes exactly one
\* callback, with the percentage cut to its integer part and the working
\* title of the latest destination line before it (empty if none), and the
\* callbacks come in the order of the lines.
C19_OneCallPerPercentLine ==
  \A j \in Jobs : cbLog[j] = ExpectedCalls(lineLog[j], "")

\* C19 case: a call before any destination line, then a destination line,
\* then the line "[download]  42.5% ...".
C19_Witness ==
  \E j \in Jobs :
    /\ Len(lineLog[j]) = 3
    /\ lineLog[j][1].shape = "percent"
    /\ lineLog[j][2].shape = "dest"
    /\ cbLog[j] = << [percent |-> -1, title |-> ""],
                     [percent |-> 42, title |-> "foo bar"] >>

\* C20: a progress line with a malformed percentage makes no callback, does
\* not make the parser raise or stop, leaves candidate path and working
\* title as they are, and the parser goes on reading.
C20_MalformedIgnored ==
  [][ \A j \in Jobs :
        /\ Len(lineLog'[j]) = Len(lineLog[j]) + 1
        /\ JustRead(j)'.shape = "percent"
        /\ JustRead(j)'.tok.kind # "num"
        => /\ cbLog'[j] = cbLog[j]
           /\ current_file'[j] = current_file[j]
           /\ current_title'[j] = current_title[j]
           /\ pc'[j] = "parse" ]_vars

\* The process of a finished parser run exited with code 0.
ExitedZero(j) == pc[j] = "parse_returned" /\ exc[j] # "Download failed"

\* The places of the directory, 1 the oldest, and those of the files whose
\* name is the title t followed by an extension.
Places == 1..Len(files)

PlacesOf(t) == {i \in Places : files[i][1] = t}

Latest(S) == CHOOSE i \in S : \A k \in S : k <= i

\* C21: after an exit with code 0 the final path is the captured path if
\* that file exists, else the most recently modified file of the working
\* title, else the most recently modified file of the directory; a missing
\* captured path and exactly one file of the title give that file.
C21_ThreeTierResolution ==
  \A j \in Jobs :
    ExitedZero(j) =>
      LET cf == current_file[j]
          ct == current_title[j]
      IN /\ IF cf # NoPath /\ \E i \in Places : files[i] = cf
            THEN mem[j].status = "completed" /\ mem[j].file_path = cf
            ELSE IF ct # "" /\ PlacesOf(ct) # {}
            THEN /\ mem[j].status = "completed"
                 /\ mem[j].file_path = files[Latest(PlacesOf(ct))]
            ELSE IF Places # {}
            THEN /\ mem[j].status = "completed"
                 /\ mem[j].file_path = files[Latest(Places)]
            ELSE mem[j].status = "failed"
         /\ /\ ~ \E i \in Places : files[i] = cf
            /\ ct # ""
            /\ Cardinality(PlacesOf(ct)) = 1
            => \E i \in PlacesOf(ct) : mem[j].file_path = files[i]

\* C21 case: the captured path "foo bar.mp4" is not on disk, "foo bar.webm"
\* is, and a newer file of another title lies next to it.
C21_Witness ==
  \E j \in Jobs :
    /\ ExitedZero(j)
    /\ current_file[j] = <<"foo bar", "mp4">>
    /\ files = << <<"foo bar", "webm">>, <<"clip", "mp3">> >>
    /\ mem[j].file_path = <<"foo bar", "webm">>

\* The path of the last line of lines that announces one.
RECURSIVE LastCandidate(_)
LastCandidate(lines) ==
  IF lines = <<>> THEN NoPath
  ELSE LET l == lines[Len(lines)]
       IN IF l.shape \in {"dest", "extract", "merger"} /\ l.path # NoPath
          THEN l.path
          ELSE LastCandidate(SubSeq(lines, 1, Len(lines) - 1))

\* C22: a merger line and an audio-extraction line each put their announced
\* path in the place of the candidate path, whatever a destination line
\* had set, and leave the working title; on success the reported path is
\* the last candidate, when that file exists.
C22_FinalPathSupersedes ==
  /\ [] \A j \in Jobs :
          /\ pc[j] \in {"parse", "parse_returned"}
               => current_file[j] = LastCandidate(lineLog[j])
          /\ /\ ExitedZero(j)
             /\ current_file[j] # NoPath
             /\ \E i \in Places : files[i] = current_file[j]
             => /\ mem[j].status = "completed"
                /\ mem[j].file_path = LastCandidate(lineLog[j])
  /\ [][ \A j \in Jobs :
           /\ Len(lineLog'[j]) = Len(lineLog[j]) + 1
           /\ JustRead(j)'.shape \in {"merger", "extract"}
           /\ JustRead(j)'.path # NoPath
           => /\ current_file'[j] = JustRead(j)'.path
              /\ current_title'[j] = current_title[j]
              /\ cbLog'[j] = cbLog[j]
              /\ pc'[j] = "parse" ]_vars

\* C22 case: a destination line for "foo bar.mp4", then an audio-extraction
\* line for "clip.mp3", which is on disk and is the path reported.
C22_Witness ==
  \E j \in Jobs :
    /\ ExitedZero(j)
    /\ Len(lineLog[j]) = 2
    /\ lineLog[j][1].shape = "dest" /\ lineLog[j][1].path = <<"foo bar", "mp4">>
    /\ lineLog[j][2].shape = "extract"
    /\ current_title[j] = "foo bar"
    /\ files = << <<"clip", "mp3">>, <<"foo bar", "mp4">> >>
    /\ mem[j].file_path = <<"clip", "mp3">>

\* C23: when the process exits with code 0 and no tier finds a file, the
\* job becomes failed, not completed, with an empty file path and a message
\* that is not the message of a non-zero exit.
C23_NoFileMeansFailed ==
  /\ [] \A j \in Jobs :
          /\ pc[j] = "stream" /\ files = <<>>
               => LET r == Resolve(0, current_file[j], current_title[j])
                      m == Finalize(mem[j], r)
                  IN /\ ~ r.success
                     /\ r.message # Resolve(1, current_file[j],
                                            current_title[j]).message
                     /\ m.status = "failed"
                     /\ m.file_path = NoPath
                     /\ m.error_message = r.message
          /\ /\ rec[j].exists
             /\ rec[j].error_message = "Download completed but file not found"
             => rec[j].status = "failed" /\ rec[j].file_path = NoPath
  /\ [][ \A j \in Jobs :
           pc[j] = "stream" /\ pc'[j] \notin {"stream", "cb_get"}
             => /\ files = <<>> => pc'[j] = "save_failed"
                /\ mem'[j].error_message = "Download completed but file not found"
                     => /\ files = <<>>
                        /\ pc'[j] = "save_failed"
                        /\ mem'[j].status = "failed"
                        /\ mem'[j].file_path = NoPath ]_vars

\* C23 case: the worker has stored the failed state of a download whose
\* process exited with code 0 and left no file.
C23_Witness ==
  \E j \in Jobs :
    /\ pc[j] = "done"
    /\ rec[j].exists
    /\ rec[j].status = "failed"
    /\ rec[j].file_path = NoPath
    /\ rec[j].error_message = "Download completed but file not found"

\* The messages that name no internal cause (downloader.py:337, 339, 342 and
\* utils.py:123).
GenericMessages ==
  {"Download failed", "Download completed but file not found",
   "Download timed out"}

\* C24: the error message of a failed row is one of a fixed set of short
\* generic messages, never the text of an exception or of a store error.
C24_OnlyGenericMessages ==
  \A j \in Jobs :
    rec[j].exists /\ rec[j].status = "failed"
      => rec[j].error_message \in GenericMessages

\* C25: when the write of the failed state in the worker's handler runs out
\* of retries or fails otherwise, the worker ends without another write:
\* the row keeps the non-terminal status it had and an empty error message,
\* and stays as it is for as long as it exists.
C25_FailedWriteLeavesRowStuck ==
  /\ [] \A j \in Jobs :
          pc[j] = "done" /\ handlerFailed[j] /\ rec[j].exists
            => /\ rec[j].status \in {"pending", "fetching", "downloading"}
               /\ rec[j].error_message = ""
  /\ [][ \A j \in Jobs :
           /\ handlerFailed'[j] /\ ~ handlerFailed[j]
                => rec'[j] = rec[j] /\ pc'[j] = "done"
           /\ pc[j] = "done" /\ handlerFailed[j]
                => /\ pc'[j] = "done"
                   /\ rec'[j].exists => rec'[j] = rec[j] ]_vars

\* C25 case: the handler's write met a locked store five times; the worker
\* has ended and the row is still downloading without a message.
C25_Witness ==
  \E j \in Jobs :
    /\ pc[j] = "done" /\ handlerFailed[j]
    /\ call[j].res = "raised"
    /\ Len(call[j].outs) = max_retries /\ AllLocked(call[j].outs)
    /\ mem[j].status = "failed"
    /\ rec[j].exists
    /\ rec[j].status = "downloading"
    /\ rec[j].error_message = ""

\* C27: a progress callback stores the reported percent and, if the row has
\* no title, the inferred one; a title stored this way (the worker's own
\* instance has none) is kept by every later write, up to and including
\* the terminal one.
C27_CallbackTitleKept ==
  [][ \A j \in Jobs :
        /\ pc[j] = "cb_save" /\ pc'[j] = "stream" /\ call'[j].res = "ok"
             => /\ rec'[j].progress = cbPercent[j]
                /\ rec'[j].title # ""
                     \/ (current_title[j] = "" /\ rec[j].title = "")
                     \/ ~ rec[j].exists
        /\ /\ pc[j] \in Running \ {"h_get", "h_save"}
           /\ mem[j].title = ""
           /\ rec[j].exists /\ rec[j].title # ""
           /\ rec'[j].exists
           => rec'[j].title = rec[j].title ]_vars

\* The four fields that metadata enrichment sets.
Enrichment(r) == <<r.title, r.thumbnail, r.uploader, r.duration>>

\* The worker of job j is past its metadata write.
PastEnrichment(j) == pc[j] \in (Running \cup {"done"}) \ {"load", "save_fetching", "info", "save_info"}

\* C28: once metadata enrichment has stored title, thumbnail, uploader and
\* duration, no later write of the worker changes any of the four.
C28_EnrichmentImmutable ==
  [][ \A j \in Jobs :
        /\ infoRun[j] \in {"info", "untitled"} /\ PastEnrichment(j)
        /\ rec[j].exists /\ rec'[j].exists
        => Enrichment(rec'[j]) = Enrichment(rec[j]) ]_vars

\* C28 amended: thumbnail, uploader and duration are changed by no later
\* write, and neither is a title that enrichment stored with text; a title
\* that enrichment stored empty is not covered.
C28_EnrichmentImmutableUnlessUntitled ==
  [][ \A j \in Jobs :
        /\ infoRun[j] \in {"info", "untitled"} /\ PastEnrichment(j)
        /\ rec[j].exists /\ rec'[j].exists
        => /\ rec'[j].thumbnail = rec[j].thumbnail
           /\ rec'[j].uploader = rec[j].uploader
           /\ rec'[j].duration = rec[j].duration
           /\ infoRun[j] = "info" => rec'[j].title = rec[j].title ]_vars

\* C28 case: a job with metadata has completed after a callback that
\* carried another title; the row has the four fields of the metadata.
C28_Witness ==
  \E j \in Jobs :
    /\ infoRun[j] = "info"
    /\ pc[j] = "done"
    /\ current_title[j] = "foo bar" /\ cbPercent[j] = 42
    /\ rec[j].exists /\ rec[j].status = "completed"
    /\ Enrichment(rec[j]) = <<"Meta Title", "thumb.jpg", "Some Channel", 212>>

\* C29: a progress write that fails (store locked through all retries, row
\* missing, any other error) is swallowed inside the callback: the step
\* hands nothing to the handler and changes neither the row nor the worker's
\* instance, the parser is back at its loop and can read the next line or
\* see the process end, and the terminal write of a download that then
\* resolved its file can still store completed.
C29_ProgressFailureSwallowed ==
  /\ [][ \A j \in Jobs :
           pc[j] \in {"cb_get", "cb_save"} /\ pc'[j] # pc[j]
             => /\ pc'[j] \in {"cb_save", "stream"}
                /\ mem'[j] = mem[j] /\ exc'[j] = exc[j]
                /\ handlerFailed'[j] = handlerFailed[j]
                /\ call'[j].res = "raised"
                     => pc'[j] = "stream" /\ rec'[j] = rec[j] ]_vars
  /\ [] \A j \in Jobs :
          /\ pc[j] = "stream" /\ call[j].res = "raised"
               => /\ rec[j].exists => rec[j].status = "downloading"
                  /\ nlines[j] < MaxLines => ENABLED ReadLine(j)
                  /\ ENABLED ProcessExit(j)
                  /\ files # <<>>
                       => ENABLED (ProcessExit(j) /\ pc'[j] = "save_completed")
          /\ pc[j] = "save_completed" /\ call[j].res = "raised"
               => ENABLED (/\ SaveCompleted(j)
                           /\ pc'[j] = "done"
                           /\ rec'[j].status = "completed")

\* C29 case: the last progress write met a locked store five times and was
\* given up; the process then ended with its file in place and the worker
\* is about to store completed over the row that is still downloading.
C29_Witness ==
  \E j \in Jobs :
    /\ pc[j] = "save_completed"
    /\ call[j].res = "raised"
    /\ Len(call[j].outs) = max_retries /\ AllLocked(call[j].outs)
    /\ mem[j].status = "completed"
    /\ rec[j].exists /\ rec[j].status = "downloading"

\* C26: nothing keeps a delete request from landing while the worker of the
\* row runs.  A progress callback that starts when the row is gone writes
\* nothing, hands nothing to the handler and returns to the parser; the
\* terminal write of a worker whose row is gone can succeed, and when it
\* does the row exists again, with the worker's final state.
C26_DeleteRacesWorker ==
  /\ [] \A j \in Jobs :
          /\ pc[j] \in Running /\ rec[j].exists
               => ENABLED (\E s \in Sessions : delete_download(j, s))
          /\ pc[j] = "cb_get" /\ ~ rec[j].exists
               => ENABLED (CallbackGet(j) /\ pc'[j] = "stream")
          /\ pc[j] \in {"save_completed", "save_failed"} /\ ~ rec[j].exists
               => ENABLED (/\ Worker(j)
                           /\ pc'[j] = "done"
                           /\ rec'[j].exists
                           /\ rec'[j].status \in {"completed", "failed"})
  /\ [][ \A j \in Jobs :
           /\ pc[j] = "cb_get" /\ ~ rec[j].exists
                => /\ rec'[j] = rec[j]
                   /\ pc'[j] \in {"cb_get", "stream"}
                   /\ mem'[j] = mem[j] /\ exc'[j] = exc[j]
           /\ /\ pc[j] \in {"save_completed", "save_failed"}
              /\ ~ rec[j].exists
              /\ pc'[j] = "done"
              => rec'[j] = Stored(mem[j]) ]_vars

\* C26 case: the row was deleted while the process ran; the callback that
\* came after the delete found no row and was given up, the process ended
\* with its file in place, and the worker is at its terminal write with no
\* row in the store.
C26_Witness ==
  \E j \in Jobs :
    /\ pc[j] = "save_completed"
    /\ ~ rec[j].exists
    /\ call[j].outs = <<"missing">> /\ call[j].res = "raised"
    /\ mem[j].status = "completed" /\ mem[j].file_path # NoPath

\* C30: with two workers running at once, under every interleaving of their
\* steps and retries, a step changes the row of a job only if it is a step
\* of that job's own thread (or the request that creates the row), no other
\* thread moves in it, the row written is the instance that thread holds,
\* and what a worker loads is the row of its own id.
C30_WorkersKeepToTheirRow ==
  [][ \A b \in Pair :
        /\ rec'[b] # rec[b]
             => /\ pc'[b] # pc[b]
                /\ rec'[b] \in {VideoDownload, Stored(mem[b]), Stored(dl[b])}
                /\ \A a \in Pair \ {b} :
                     /\ pc'[a] = pc[a] /\ call'[a] = call[a]
                     /\ rec'[a] = rec[a]
                     /\ mem'[a] = mem[a] /\ dl'[a] = dl[a]
        /\ pc[b] = "load" /\ pc'[b] = "save_fetching"
             => mem'[b] = [rec[b] EXCEPT !.status = "fetching"]
        /\ pc[b] = "cb_get" /\ pc'[b] = "cb_save"
             => [dl'[b] EXCEPT !.progress = 0, !.title = ""]
                  = [rec[b] EXCEPT !.progress = 0, !.title = ""]
        /\ pc[b] = "h_get" /\ pc'[b] = "h_save"
             => mem'[b] = [rec[b] EXCEPT !.status = "failed",
                                         !.error_message = exc[b]] ]_vars

\* C30 case: job 1 has completed with its metadata, progress 100 and its
\* file while job 2, whose progress write was just turned away by the
\* locked store, is still downloading with progress 0.
C30_Witness ==
  /\ pc[1] = "done" /\ rec[1].status = "completed"
  /\ rec[1].progress = ProgressMax
  /\ pc[2] = "cb_save" /\ call[2].outs = <<"locked">>
  /\ dl[2].progress = 42
  /\ rec[2].status = "downloading" /\ rec[2].progress = 0

\* Row j is completed.
Completed(j) == rec[j].exists /\ rec[j].status = "completed"

====
